---- MODULE Spec2Model ----
(***************************************************************************)
(* Model of ApplicationHeatmap/application-tracker.py: the pipeline        *)
(*   get_applications -> count_per_day -> draw_interactive_grid.           *)
(*                                                                         *)
(* Python values are modelled as follows.                                  *)
(*   None            the record [None |-> TRUE]                            *)
(*   a str           the record [str |-> s]; a date or date-time string    *)
(*                   "YYYY-MM-DD<rest>" has s = <<ordinal of the date,     *)
(*                   rest>>, so "2024-05-01" and "2024-05-01T09:00:00"     *)
(*                   are different strings with the same calendar date     *)
(*   a dict          a function whose domain is the set of keys            *)
(*   a list          a sequence (a grid: a function on 0-based indices)    *)
(*   a date          its proleptic Gregorian ordinal (date.toordinal())    *)
(***************************************************************************)
EXTENDS Integers, Sequences, FiniteSets, TLC

VARIABLES pc, requests, responses, all_results, has_more, next_cursor,
          applications, daily_counts, today, dates, total_weeks,
          z, hover_text, z_colors, written

vars == <<pc, requests, responses, all_results, has_more, next_cursor,
          applications, daily_counts, today, dates, total_weeks,
          z, hover_text, z_colors, written>>

---------------------------------------------------------------------------
(* Bounds of the model *)

\* at most this many page requests are issued by one run
MaxRequests == 3
\* the clock reads one of NumTodays consecutive days starting at FirstToday
NumTodays == 7
\* ordinal of 2024-05-01, a Wednesday
FirstToday == 739007

(* Program constants *)

PageSize == 100
Weeks == 10
DaysPerWeek == 7
RedBelow == 10
YellowBelow == 25
TierMax == 3

---------------------------------------------------------------------------
(* Python values *)

None == [None |-> TRUE]

Str(s) == [str |-> s]

EmptyDict == <<>>

\* dict.get(key, default)
Get(d, key, default) == IF key \in DOMAIN d THEN d[key] ELSE default

\* truth value of a str, a dict or None
Truthy(v) ==
    /\ v # None
    /\ v # EmptyDict
    /\ v # Str("")

\* datetime.timedelta(weeks=w), in days
timedelta_weeks(w) == w * DaysPerWeek

\* date.weekday(): Monday = 0 .. Sunday = 6; ordinal 1 (0001-01-01) is a Monday
weekday(d) == (d + 6) % DaysPerWeek

\* date.isoformat(), and str(date): "YYYY-MM-DD" with nothing after it
isoformat(d) == Str(<<d, "">>)

---------------------------------------------------------------------------
(* The remote source: the records and the pages it can answer with *)

DateRecord(s) == [properties |-> ("Date Applied" :> [date |-> [start |-> s]])]
NullDateRecord == [properties |-> ("Date Applied" :> [date |-> None])]
NoPropRecord == [properties |-> ("Company" :> Str("acme"))]

DayA == FirstToday
DayB == FirstToday - 30

RA == DateRecord(isoformat(DayA))
RAt == DateRecord(Str(<<DayA, "T09:00:00.000-04:00">>))
RB == DateRecord(isoformat(DayB))

Rep(n, r) == [i \in 1..n |-> r]

MixedPage == <<NoPropRecord, RAt, RB, NullDateRecord>>

Pages ==
    { <<>>,
      <<RA>>,
      MixedPage,
      Rep(9, RA),
      Rep(15, RA),
      Rep(25, RA) }

\* the has_more / next_cursor keys of a response body
More(cursor) == [has_more |-> TRUE, next_cursor |-> cursor]
LastPage == [has_more |-> FALSE, next_cursor |-> None]

Body(page, ctl) == ("results" :> page) @@ ctl

\* the bodies a success response can carry: any page with a cursor to the
\* next one, any page as the last one, a page that says there is more with a
\* null or an empty cursor, and a body with neither key
Bodies ==
    { Body(p, More(Str("cur"))) : p \in Pages }
    \cup { Body(p, LastPage) : p \in Pages }
    \cup { Body(<<RA>>, More(None)), Body(<<RA>>, More(Str(""))),
           Body(MixedPage, EmptyDict) }

---------------------------------------------------------------------------
(* get_applications *)

\* mutant: "if next_cursor is not None" in place of "if next_cursor"
PayloadNotNone(cursor) ==
    IF cursor # None
    THEN [page_size |-> PageSize, start_cursor |-> cursor]
    ELSE [page_size |-> PageSize]

Payload(cursor) ==
    IF Truthy(cursor)
    THEN [page_size |-> PageSize, start_cursor |-> cursor]
    ELSE [page_size |-> PageSize]

\* mutant: the new page goes in front of what was fetched so far
ExtendPrepended(all, results) == results \o all

\* all_results.extend(data["results"])
Extend(all, results) == all \o results

Init ==
    /\ pc = "loop"
    /\ requests = <<>>
    /\ responses = <<>>
    /\ all_results = <<>>
    /\ has_more = TRUE
    /\ next_cursor = None
    /\ applications = None
    /\ daily_counts = None
    /\ today = 0
    /\ dates = <<>>
    /\ total_weeks = 0
    /\ z = <<>>
    /\ hover_text = <<>>
    /\ z_colors = <<>>
    /\ written = FALSE

\* the loop test, the payload and requests.post(...) going out
SendRequest ==
    /\ pc = "loop"
    /\ has_more
    /\ Len(requests) < MaxRequests
    /\ requests' = Append(requests, Payload(next_cursor))
    /\ pc' = "post"
    /\ UNCHANGED <<responses, all_results, has_more, next_cursor,
                   applications, daily_counts, today, dates, total_weeks,
                   z, hover_text, z_colors, written>>

\* a success response arrives: raise_for_status passes, the body is consumed,
\* and the function returns when has_more is false
ReceiveOk ==
    /\ pc = "post"
    /\ \E data \in Bodies :
        /\ responses' = Append(responses, [status |-> 200, json |-> data])
        /\ all_results' = Extend(all_results, data["results"])
        /\ has_more' = Get(data, "has_more", FALSE)
        /\ next_cursor' = Get(data, "next_cursor", None)
        /\ IF has_more'
           THEN pc' = "loop" /\ UNCHANGED applications
           ELSE pc' = "count" /\ applications' = all_results'
    /\ UNCHANGED <<requests, daily_counts, today, dates, total_weeks,
                   z, hover_text, z_colors, written>>

\* mutant: the error is swallowed and the pages fetched so far are returned
ReceiveErrorSwallowed ==
    /\ pc = "post"
    /\ responses' = Append(responses, [status |-> 500])
    /\ pc' = "count"
    /\ applications' = all_results
    /\ UNCHANGED <<requests, all_results, has_more, next_cursor,
                   daily_counts, today, dates, total_weeks,
                   z, hover_text, z_colors, written>>

\* a non-success response arrives: raise_for_status raises, nothing catches it
ReceiveError ==
    /\ pc = "post"
    /\ responses' = Append(responses, [status |-> 500])
    /\ pc' = "crashed"
    /\ UNCHANGED <<requests, all_results, has_more, next_cursor,
                   applications, daily_counts, today, dates, total_weeks,
                   z, hover_text, z_colors, written>>

---------------------------------------------------------------------------
(* count_per_day *)

\* props.get("Date Applied", {}).get("date")
DateField(app) == Get(Get(app["properties"], "Date Applied", EmptyDict), "date", None)

\* the key a record is counted under: the raw "start" string
DateKey(date_field) == date_field["start"]

\* counts[k] = counts.get(k, 0) + 1
Increment(counts, k) ==
    [x \in DOMAIN counts \cup {k} |-> IF x = k THEN Get(counts, k, 0) + 1 ELSE counts[x]]

\* mutant: a record without a date is counted under a default date
count_step_unskipped(apps, i, counts) ==
    LET date_field == DateField(apps[i])
    IN  IF ~Truthy(date_field) THEN Increment(counts, isoformat(1))
        ELSE Increment(counts, DateKey(date_field))

\* the body of the for loop for the record at position i
count_step(apps, i, counts) ==
    LET date_field == DateField(apps[i])
    IN  IF ~Truthy(date_field) THEN counts
        ELSE Increment(counts, DateKey(date_field))

\* the for loop over the positions lo .. hi-1 of apps, in order: the first half
\* of the range, then the second half on the counts the first half left
\* (cl is bound to them, so they are computed before the second half runs)
RECURSIVE count_loop(_, _, _, _)
count_loop(apps, lo, hi, counts) ==
    IF hi <= lo THEN counts
    ELSE IF hi = lo + 1 THEN count_step(apps, lo, counts)
    ELSE LET mid == (lo + hi) \div 2
         IN  CHOOSE r \in { count_loop(apps, mid, hi, cl) :
                               cl \in {count_loop(apps, lo, mid, counts)} } : TRUE

count_per_day(apps) == count_loop(apps, 1, Len(apps) + 1, EmptyDict)

CountPerDay ==
    /\ pc = "count"
    /\ daily_counts' = count_per_day(applications)
    /\ pc' = "draw"
    /\ UNCHANGED <<requests, responses, all_results, has_more, next_cursor,
                   applications, today, dates, total_weeks,
                   z, hover_text, z_colors, written>>

---------------------------------------------------------------------------
(* draw_interactive_grid *)

Todays == FirstToday .. (FirstToday + NumTodays - 1)

start_date(t) == t - timedelta_weeks(Weeks)

\* mutant: range((today - start_date).days), which leaves today out
WindowLengthExclusive(t) == t - start_date(t)

\* [start_date + timedelta(days=i) for i in range((today - start_date).days + 1)]
WindowLength(t) == (t - start_date(t)) + 1

Dates(t) == [k \in 1..WindowLength(t) |-> start_date(t) + (k - 1)]

\* (len(dates) + 6) // 7
TotalWeeks(ds) == (Len(ds) + 6) \div 7

Rows == 0..(DaysPerWeek - 1)
Cols(w) == 0..(w - 1)

\* f"{d}: {val} application{'s' if val != 1 else ''}"
Suffix(val) == IF val # 1 THEN "s" ELSE ""
Label(d, val) == [date |-> isoformat(d), count |-> val, noun |-> "application", suffix |-> Suffix(val)]
\* f"{d}: 0 applications"
FutureLabel(d) == [date |-> isoformat(d), count |-> 0, noun |-> "application", suffix |-> "s"]

\* the value and hover label of the date at 0-based position i of dates
CellVal(counts, t, d) == IF d > t THEN 0 ELSE Get(counts, isoformat(d), 0)
CellLabel(counts, t, d) ==
    IF d > t THEN FutureLabel(d) ELSE Label(d, Get(counts, isoformat(d), 0))

\* mutant: the column of a 1-based position
week_idx_one_based(i) == (i + 1) \div 7

week_idx(i) == i \div 7
day_idx(d) == weekday(d)

\* [[v for _ in range(total_weeks)] for _ in range(7)]
Filled(w, v) == [y \in Rows |-> [x \in Cols(w) |-> v]]

\* grid[y][x] = v
Put(grid, y, x, v) == [grid EXCEPT ![y] = [@ EXCEPT ![x] = v]]

\* the body of the layout loop at 0-based position i; g = [z, hover_text]
layout_step(counts, t, ds, i, g) ==
    LET d == ds[i + 1]
    IN  [z |-> Put(g.z, day_idx(d), week_idx(i), CellVal(counts, t, d)),
         hover_text |-> Put(g.hover_text, day_idx(d), week_idx(i), CellLabel(counts, t, d))]

\* the layout loop over the 0-based positions lo .. hi-1, in order: the first
\* half of the range, then the second half on the grids the first half left
\* (gl is bound to them, so they are computed before the second half runs)
RECURSIVE layout_loop(_, _, _, _, _, _)
layout_loop(counts, t, ds, lo, hi, g) ==
    IF hi <= lo THEN g
    ELSE IF hi = lo + 1 THEN layout_step(counts, t, ds, lo, g)
    ELSE LET mid == (lo + hi) \div 2
         IN  CHOOSE r \in { layout_loop(counts, t, ds, mid, hi, gl) :
                               gl \in {layout_loop(counts, t, ds, lo, mid, g)} } : TRUE

Layout(counts, t, ds, w) ==
    layout_loop(counts, t, ds, 0, Len(ds), [z |-> Filled(w, 0), hover_text |-> Filled(w, None)])

\* mutant: the raw count goes to the colour scale
discrete_colorscale_raw(val) == val

\* mutant: "<=" in place of "<" at both thresholds
discrete_colorscale_inclusive(val) ==
    IF val = 0 THEN 0
    ELSE IF val <= RedBelow THEN 1
    ELSE IF val <= YellowBelow THEN 2
    ELSE TierMax

discrete_colorscale(val) ==
    IF val = 0 THEN 0
    ELSE IF val < RedBelow THEN 1
    ELSE IF val < YellowBelow THEN 2
    ELSE TierMax

\* [[discrete_colorscale(z[y][x]) for x in range(total_weeks)] for y in range(7)]
ZColors(grid, w) == [y \in Rows |-> [x \in Cols(w) |-> discrete_colorscale(grid[y][x])]]

\* today is read from the clock; the locals are bound once, as the code
\* computes them, and fig.write_html is the last statement that has an effect
Draw ==
    /\ pc = "draw"
    /\ \E t \in Todays :
       \E ds \in {Dates(t)} :
       \E w \in {TotalWeeks(ds)} :
       \E g \in {Layout(daily_counts, t, ds, w)} :
        /\ today' = t
        /\ dates' = ds
        /\ total_weeks' = w
        /\ z' = g.z
        /\ hover_text' = g.hover_text
        /\ z_colors' = ZColors(g.z, w)
    /\ written' = TRUE
    /\ pc' = "done"
    /\ UNCHANGED <<requests, responses, all_results, has_more, next_cursor,
                   applications, daily_counts>>

---------------------------------------------------------------------------

Next ==
    \/ SendRequest
    \/ ReceiveOk
    \/ ReceiveError
    \/ CountPerDay
    \/ Draw

Spec == Init /\ [][Next]_vars

---------------------------------------------------------------------------
(* Vocabulary of the properties *)

Returned == pc \in {"count", "draw", "done"}
Counted == pc \in {"draw", "done"}
Rendered == pc = "done"

IsOk(r) == r.status = 200
SaysMore(r) == IsOk(r) /\ "has_more" \in DOMAIN r.json /\ r.json["has_more"]

RECURSIVE ConcatResults(_)
ConcatResults(rs) ==
    IF Len(rs) = 0 THEN <<>> ELSE rs[1].json["results"] \o ConcatResults(Tail(rs))

\* the source answered p1..pn: all successful, all but the last saying has_more
LastPageArrived ==
    /\ Len(responses) > 0
    /\ \A i \in 1..Len(responses) : IsOk(responses[i])
    /\ \A i \in 1..(Len(responses) - 1) : SaysMore(responses[i])
    /\ ~SaysMore(responses[Len(responses)])

\* a record that carries a date: "Date Applied" is there and its date is a dict
\* with a start string
HasDate(app) ==
    /\ "Date Applied" \in DOMAIN app["properties"]
    /\ "start" \in DOMAIN app["properties"]["Date Applied"]["date"]

StartOf(app) == app["properties"]["Date Applied"]["date"]["start"]

\* the positions of the records of apps whose calendar date is d
DatedOn(apps, d) ==
    { i \in 1..Len(apps) : HasDate(apps[i]) /\ StartOf(apps[i]).str[1] = d }

RECURSIVE SumCounts(_)
SumCounts(counts) ==
    IF DOMAIN counts = {} THEN 0
    ELSE LET k == CHOOSE x \in DOMAIN counts : TRUE
         IN  counts[k] + SumCounts([x \in DOMAIN counts \ {k} |-> counts[x]])

\* the cell of the date at position i (1-based) of dates: Monday-first weekday
\* of the date (ordinal 1 is a Monday), and whole weeks since the window start
RowOf(i) == (dates[i] - 1) % 7
ColOf(i) == (i - 1) \div 7
WindowCells == { <<RowOf(i), ColOf(i)>> : i \in 1..Len(dates) }
GridCells == { <<y, x>> : y \in 0..6, x \in 0..(total_weeks - 1) }

\* what counts holds for date d, 0 when d is no key
CountOf(counts, d) == IF Str(<<d, "">>) \in DOMAIN counts THEN counts[Str(<<d, "">>)] ELSE 0

Min(a, b) == IF a < b THEN a ELSE b

---------------------------------------------------------------------------
(* Properties *)

\* C1: once the source has answered p1..pn (all successful, p1..p(n-1) with
\* has_more=true, pn with has_more false), get_applications has returned
\* results(p1) ++ ... ++ results(pn) in arrival order, and exactly n requests
\* were issued (none after pn).
C1_PaginationConcatenates ==
    LastPageArrived =>
        /\ Returned
        /\ applications = ConcatResults(responses)
        /\ Len(requests) = Len(responses)

C1_Witness ==
    /\ LastPageArrived
    /\ Len(responses) = 3
    /\ responses[1].json["results"] = <<RA>>
    /\ responses[2].json["results"] = MixedPage
    /\ responses[3].json["results"] = Rep(9, RA)
    /\ Returned

\* C2: when any page request got a non-success status, the run is aborted:
\* nothing was returned, nothing was aggregated and no file was written.
C2_AbortOnHttpError ==
    (\E i \in 1..Len(responses) : ~IsOk(responses[i])) =>
        /\ pc = "crashed"
        /\ ~written
        /\ applications = None
        /\ daily_counts = None

C2_Witness ==
    /\ pc = "crashed"
    /\ Len(responses) = 3
    /\ Len(all_results) > 0

\* C3: records without a date contribute nothing: the counts add up to the
\* number of records that have a date, and equal the counts of the collection
\* with the dateless records removed.
C3_SkipDateless ==
    Counted =>
        /\ SumCounts(daily_counts)
             = Cardinality({ i \in 1..Len(applications) : HasDate(applications[i]) })
        /\ daily_counts = count_per_day(SelectSeq(applications, HasDate))

C3_Witness ==
    /\ Counted
    /\ \E i, j, k \in 1..Len(applications) :
        /\ applications[i] = NoPropRecord
        /\ applications[j] = NullDateRecord
        /\ HasDate(applications[k])

\* C4 (as claimed): every key of the counts is a pure ISO date, and the count
\* under it is the number of records whose calendar date it is, whether they
\* carry a date or a date-time.
C4_DatesNormalized ==
    Counted =>
        /\ \A k \in DOMAIN daily_counts :
            /\ k.str[2] = ""
            /\ daily_counts[k] = Cardinality(DatedOn(applications, k.str[1]))
        /\ \A i \in 1..Len(applications) :
            HasDate(applications[i]) =>
                Str(<<StartOf(applications[i]).str[1], "">>) \in DOMAIN daily_counts

\* C5 (as claimed): the window is exactly 60 consecutive dates in ascending
\* order ending today, on a grid of 7 rows and 9 columns.
C5_WindowIs60Days ==
    Rendered =>
        /\ Len(dates) = 60
        /\ dates[Len(dates)] = today
        /\ \A i \in 1..(Len(dates) - 1) : dates[i + 1] = dates[i] + 1
        /\ total_weeks = 9
        /\ DOMAIN z = 0..6
        /\ \A y \in DOMAIN z : DOMAIN z[y] = 0..8

\* C5 (amended): the window is exactly 71 consecutive dates in ascending order,
\* from the day ten weeks before today to today inclusive, on a grid of 7 rows
\* and ceil(71/7) = 11 columns.
C5_WindowIs71Days ==
    Rendered =>
        /\ Len(dates) = 71
        /\ dates[1] = today - 70
        /\ dates[Len(dates)] = today
        /\ \A i \in 1..(Len(dates) - 1) : dates[i + 1] = dates[i] + 1
        /\ total_weeks = 11
        /\ DOMAIN z = 0..6 /\ DOMAIN hover_text = 0..6 /\ DOMAIN z_colors = 0..6
        /\ \A y \in 0..6 :
            DOMAIN z[y] = 0..10 /\ DOMAIN hover_text[y] = 0..10 /\ DOMAIN z_colors[y] = 0..10

C5_Witness ==
    /\ Rendered
    /\ today = FirstToday + 3
    /\ Len(dates) > 0

\* C6: each window date sits at row weekday (Monday = 0), column offset div 7;
\* no two window dates share a cell, every cell is inside the grid, every
\* window date has its count (0 when absent) and a hover label, the labelled
\* cells are as many as the window days, and the other cells keep their
\* default (count 0, no label).
C6_EveryWindowDatePlaced ==
    Rendered =>
        /\ Cardinality(WindowCells) = Len(dates)
        /\ WindowCells \subseteq GridCells
        /\ \A i \in 1..Len(dates) :
            /\ z[RowOf(i)][ColOf(i)] = CountOf(daily_counts, dates[i])
            /\ hover_text[RowOf(i)][ColOf(i)] # None
            /\ hover_text[RowOf(i)][ColOf(i)].date = Str(<<dates[i], "">>)
        /\ Cardinality({ c \in GridCells : hover_text[c[1]][c[2]] # None }) = Len(dates)
        /\ \A c \in GridCells \ WindowCells :
            z[c[1]][c[2]] = 0 /\ hover_text[c[1]][c[2]] = None

C6_Witness ==
    /\ Rendered
    /\ GridCells \ WindowCells # {}
    /\ \E i, j \in 1..Len(dates) :
        /\ z[RowOf(i)][ColOf(i)] = 0
        /\ z[RowOf(j)][ColOf(j)] > 0

\* C7: a window date with at least 25 applications hands the colour scale the
\* same value as a date with exactly 25, and its hover text shows the true
\* count.
C7_CapAt25 ==
    Rendered =>
        \A i \in 1..Len(dates) :
            CountOf(daily_counts, dates[i]) >= 25 =>
                /\ z_colors[RowOf(i)][ColOf(i)] = discrete_colorscale(25)
                /\ hover_text[RowOf(i)][ColOf(i)].count = CountOf(daily_counts, dates[i])
                /\ hover_text[RowOf(i)][ColOf(i)].suffix = "s"

C7_Witness ==
    /\ Rendered
    /\ \E i \in 1..Len(dates) :
        /\ CountOf(daily_counts, dates[i]) = 40
        /\ hover_text[RowOf(i)][ColOf(i)].count = 40

\* C8 (as claimed): the value each cell hands to the colour scale is the
\* clamped count min(count, 25).
C8_ContinuousClampedScale ==
    Rendered =>
        \A c \in GridCells : z_colors[c[1]][c[2]] = Min(z[c[1]][c[2]], 25)

\* C8 (amended): the value each cell hands to the colour scale is a discrete
\* tier index: 0 for a count of 0, 1 for 1..9, 2 for 10..24, 3 for 25 and more
\* (so counts 1 and 9 get the same position).
C8_DiscreteTiers ==
    Rendered =>
        \A c \in GridCells :
            LET n == z[c[1]][c[2]]
                tier == z_colors[c[1]][c[2]]
            IN  /\ n = 0 => tier = 0
                /\ (1 <= n /\ n <= 9) => tier = 1
                /\ (10 <= n /\ n <= 24) => tier = 2
                /\ n >= 25 => tier = 3

C8_Witness ==
    /\ Rendered
    /\ \E a \in GridCells : z[a[1]][a[2]] = 1 /\ z_colors[a[1]][a[2]] = 1
    /\ \E b \in GridCells : z[b[1]][b[2]] = 9 /\ z_colors[b[1]][b[2]] = 1

\* C9 (as claimed): the hover label of every window date d is "<d>: <n>
\* application" when n = 1 and "<d>: <n> applications" otherwise, n being the
\* number of fetched records dated d, and the cell's count is n.
C9_HoverShowsRecordsOfTheDay ==
    Rendered =>
        \A i \in 1..Len(dates) :
            LET n == Cardinality(DatedOn(applications, dates[i]))
            IN  /\ z[RowOf(i)][ColOf(i)] = n
                /\ hover_text[RowOf(i)][ColOf(i)]
                     = [date |-> Str(<<dates[i], "">>), count |-> n,
                        noun |-> "application", suffix |-> IF n = 1 THEN "" ELSE "s"]

\* C10: the first request carries no start_cursor; every later request comes
\* after a success response that said has_more=true and carries that
\* response's next_cursor, or no start_cursor when that next_cursor is null or
\* empty; requests and responses alternate; and as long as every response says
\* has_more=true the fetch has not returned and holds every page received.
C10_CursorProtocol ==
    /\ Len(responses) <= Len(requests)
    /\ Len(requests) <= Len(responses) + 1
    /\ (pc = "post") = (Len(requests) = Len(responses) + 1)
    /\ \A k \in 1..Len(requests) : requests[k].page_size = 100
    /\ Len(requests) >= 1 => DOMAIN requests[1] = {"page_size"}
    /\ \A k \in 2..Len(requests) :
        /\ SaysMore(responses[k - 1])
        /\ LET nc == responses[k - 1].json["next_cursor"]
           IN  IF nc = None \/ nc = Str("")
               THEN requests[k] = requests[1]
               ELSE requests[k] = [page_size |-> 100, start_cursor |-> nc]
    /\ (\A i \in 1..Len(responses) : SaysMore(responses[i])) =>
        /\ pc \in {"loop", "post"}
        /\ all_results = ConcatResults(responses)

C10_Witness ==
    /\ Len(requests) = 3
    /\ Len(responses) = 2
    /\ responses[1].json = Body(<<RA>>, More(None))
    /\ responses[2].json = Body(<<RA>>, More(Str("")))
    /\ requests[2] = requests[1]
    /\ requests[3] = requests[1]
    /\ all_results = <<RA, RA>>

====
